---- MODULE Spec2Model ----
(***************************************************************************)
(* Model of the Camera component (src/javascript/components/Camera.tsx):   *)
(* the memoised default stop, the stop builder buildNativeStop, the        *)
(* max-bounds memo and the imperative handle setCamera / fitBounds /       *)
(* flyTo / moveTo / zoomTo, which hand payloads to the native component    *)
(* through camera.current.setNativeProps.                                  *)
(*                                                                         *)
(* An optional JavaScript value is a sequence of length 0 (undefined or    *)
(* null) or 1 (the value).                                                 *)
(***************************************************************************)
EXTENDS Integers, Sequences, FiniteSets, TLC

VARIABLES
    defaultSettings,     \* prop: optional CameraStop
    followUserLocation,  \* prop: boolean (undefined is falsy)
    followConfig,        \* props followUserMode, followZoomLevel, followPitch, followHeading
    maxBounds,           \* prop: optional {ne, sw}
    stopProps,           \* props centerCoordinate .. animationMode, as one CameraStop
    nativeDefaultStop,   \* useMemo, deps [defaultSettings]
    nativeStop,          \* useMemo, deps [stop props, buildNativeStop]
    nativeMaxBounds,     \* useMemo, deps [maxBounds]
    dispatched,          \* payloads the latest imperative call gave to setNativeProps, in order
    lastCall             \* the latest event: the imperative call and its arguments, or "props"

vars == <<defaultSettings, followUserLocation, followConfig, maxBounds, stopProps,
          nativeDefaultStop, nativeStop, nativeMaxBounds, dispatched, lastCall>>

----------------------------------------------------------------------------
(* Optional values *)

None == <<>>

Some(v) == <<v>>

IsSome(o) == Len(o) > 0

\* JavaScript a ?? b
Coalesce(a, b) == IF IsSome(a) THEN a ELSE b

----------------------------------------------------------------------------
(* Bounds of the model *)

MaxStops == 2

MaxPadLen == 5

PadBases == {0, 10}

Positions == {<<10, 20>>, <<12, 34>>}

----------------------------------------------------------------------------
(* Animation modes *)

CameraModes ==
    [Flight |-> "flyTo", Ease |-> "easeTo", Linear |-> "linearTo",
     Move |-> "moveTo", None |-> "none"]

NativeCameraModes ==
    [Flight |-> "flight", Ease |-> "ease", Linear |-> "linear", Move |-> "move"]

nativeAnimationMode(mode) ==
    IF mode = Some(CameraModes.Flight) THEN NativeCameraModes.Flight
    ELSE IF mode = Some(CameraModes.Ease) THEN NativeCameraModes.Ease
    ELSE IF mode = Some(CameraModes.Linear) THEN NativeCameraModes.Linear
    ELSE IF mode = Some(CameraModes.Move) THEN NativeCameraModes.Move
    ELSE IF mode = Some(CameraModes.None) THEN NativeCameraModes.Move
    ELSE NativeCameraModes.Ease

----------------------------------------------------------------------------
(* Serialisation.  A serialised value is a sequence: a tag naming the shape *)
(* of the JSON text, then the positions and optional numbers it contains.   *)

\* geoUtils.makePoint: the canonical point of a coordinate
makePoint(c) == <<"Point", c>>

\* geoUtils.makeLatLngBounds: the canonical bounding box of two corners
makeLatLngBounds(ne, sw) == <<"LatLngBounds", ne, sw>>

\* JSON.stringify of a geoUtils value
JSONstringify(v) == Some(v)

\* JSON.stringify(defaultSettings.centerCoordinate): the bare position, or undefined
JSONstringifyPosition(c) ==
    IF IsSome(c) THEN Some(<<"Position", c[1]>>) ELSE None

\* JSON.stringify(defaultSettings.bounds): the bare bounds object, padding props included
JSONstringifyBounds(b) ==
    IF IsSome(b)
    THEN Some(<<"CameraBounds", b[1].ne, b[1].sw, b[1].paddingTop, b[1].paddingRight,
                b[1].paddingBottom, b[1].paddingLeft>>)
    ELSE None

----------------------------------------------------------------------------
(* The memoised default stop *)

\* { ...null }: a stop none of whose fields is set
EmptyNativeStop ==
    [centerCoordinate |-> None, bounds |-> None, heading |-> None, pitch |-> None,
     zoom |-> None, paddingTop |-> None, paddingBottom |-> None, paddingLeft |-> None,
     paddingRight |-> None, duration |-> None, mode |-> None]

\* stop.padding?.side
PaddingSide(padding, side) == IF IsSome(padding) THEN padding[1][side] ELSE None

\* stop.bounds?.side
BoundsSide(bounds, side) == IF IsSome(bounds) THEN bounds[1][side] ELSE None

\* the body of the useMemo: null without defaultSettings
NativeDefaultStopOf(ds) ==
    IF ~IsSome(ds) THEN None
    ELSE LET d == ds[1] IN
         Some([centerCoordinate |-> JSONstringifyPosition(d.centerCoordinate),
               bounds |-> JSONstringifyBounds(d.bounds),
               heading |-> Coalesce(d.heading, Some(0)),
               pitch |-> Coalesce(d.pitch, Some(0)),
               zoom |-> Coalesce(d.zoomLevel, Some(11)),
               paddingTop |-> Coalesce(PaddingSide(d.padding, "paddingTop"), Some(0)),
               paddingBottom |-> Coalesce(PaddingSide(d.padding, "paddingBottom"), Some(0)),
               paddingLeft |-> Coalesce(PaddingSide(d.padding, "paddingLeft"), Some(0)),
               paddingRight |-> Coalesce(PaddingSide(d.padding, "paddingRight"), Some(0)),
               duration |-> Coalesce(d.animationDuration, Some(2000)),
               mode |-> Some(nativeAnimationMode(d.animationMode))])

----------------------------------------------------------------------------
(* The stop builder *)

\* { ...nativeDefaultStop }
Spread(defaultStop) == IF IsSome(defaultStop) THEN defaultStop[1] ELSE EmptyNativeStop

\* lines 274-278: the center of the override, as a canonical point
WithCenterCoordinate(s, stop) ==
    IF IsSome(stop.centerCoordinate)
    THEN [s EXCEPT !.centerCoordinate = JSONstringify(makePoint(stop.centerCoordinate[1]))]
    ELSE s

WithBounds_unlessCenter(s, stop) ==
    IF /\ IsSome(stop.bounds) /\ IsSome(stop.bounds[1].ne) /\ IsSome(stop.bounds[1].sw)
       /\ ~IsSome(stop.centerCoordinate)
    THEN [s EXCEPT !.bounds = JSONstringify(makeLatLngBounds(stop.bounds[1].ne[1],
                                                             stop.bounds[1].sw[1]))]
    ELSE s

\* lines 280-283: the bounds of the override, when both corners are there
WithBounds(s, stop) ==
    IF IsSome(stop.bounds) /\ IsSome(stop.bounds[1].ne) /\ IsSome(stop.bounds[1].sw)
    THEN [s EXCEPT !.bounds = JSONstringify(makeLatLngBounds(stop.bounds[1].ne[1],
                                                             stop.bounds[1].sw[1]))]
    ELSE s

ResolvedPadding_wholesale(stop, side) ==
    IF IsSome(stop.padding)
    THEN Coalesce(PaddingSide(stop.padding, side), Some(0))
    ELSE Coalesce(BoundsSide(stop.bounds, side), Some(0))

\* lines 285-292: stop.padding?.side ?? stop.bounds?.side ?? 0
ResolvedPadding(stop, side) ==
    Coalesce(PaddingSide(stop.padding, side),
             Coalesce(BoundsSide(stop.bounds, side), Some(0)))

\* the merge of lines 264-294, after the follow check
MergeStop(defaultStop, stop) ==
    LET s0 == Spread(defaultStop)
        s1 == IF IsSome(stop.pitch) THEN [s0 EXCEPT !.pitch = stop.pitch] ELSE s0
        s2 == IF IsSome(stop.heading) THEN [s1 EXCEPT !.heading = stop.heading] ELSE s1
        s3 == IF IsSome(stop.zoomLevel) THEN [s2 EXCEPT !.zoom = stop.zoomLevel] ELSE s2
        s4 == IF IsSome(stop.animationMode)
              THEN [s3 EXCEPT !.mode = Some(nativeAnimationMode(stop.animationMode))]
              ELSE s3
        s5 == IF IsSome(stop.animationDuration)
              THEN [s4 EXCEPT !.duration = stop.animationDuration]
              ELSE s4
        s6 == WithCenterCoordinate(s5, stop)
        s7 == WithBounds(s6, stop)
    IN [s7 EXCEPT !.paddingTop = ResolvedPadding(stop, "paddingTop"),
                  !.paddingRight = ResolvedPadding(stop, "paddingRight"),
                  !.paddingBottom = ResolvedPadding(stop, "paddingBottom"),
                  !.paddingLeft = ResolvedPadding(stop, "paddingLeft")]

buildNativeStop_followIgnored(defaultStop, follow, stop, ignoreFollowUserLocation) ==
    Some(MergeStop(defaultStop, stop))

\* buildNativeStop of a render whose nativeDefaultStop is defaultStop and whose
\* props.followUserLocation is follow: null (None) while following
buildNativeStop(defaultStop, follow, stop, ignoreFollowUserLocation) ==
    IF follow /\ ~ignoreFollowUserLocation
    THEN None
    ELSE Some(MergeStop(defaultStop, stop))

\* the body of the nativeMaxBounds useMemo
NativeMaxBoundsOf(mb) ==
    IF ~IsSome(mb) \/ ~IsSome(mb[1].ne) \/ ~IsSome(mb[1].sw)
    THEN None
    ELSE JSONstringify(makeLatLngBounds(mb[1].ne[1], mb[1].sw[1]))

----------------------------------------------------------------------------
(* The imperative handle *)

\* config.stops is truthy
HasStops(config) == "stops" \in DOMAIN config

\* the type of config after lines 333-341
ConfigType(config) ==
    IF IsSome(config.type) THEN config.type[1]
    ELSE IF HasStops(config) THEN "CameraStops" ELSE "CameraStop"

setCamera_accumulating(defaultStop, follow, config) ==
    IF ConfigType(config) = "CameraStops"
    THEN [i \in 1..Len(config.stops) |->
            [stop |-> [stops |-> IF follow THEN <<>>
                                 ELSE [j \in 1..i |-> MergeStop(defaultStop, config.stops[j])]]]]
    ELSE IF ConfigType(config) = "CameraStop"
    THEN LET _nativeStop == buildNativeStop(defaultStop, follow, config, FALSE)
         IN IF IsSome(_nativeStop) THEN <<[stop |-> _nativeStop[1]]>> ELSE <<>>
    ELSE <<>>

\* the setNativeProps calls of _setCamera(config), in order
setCamera(defaultStop, follow, config) ==
    IF ConfigType(config) = "CameraStops"
    THEN [i \in 1..Len(config.stops) |->
            LET _nativeStop == buildNativeStop(defaultStop, follow, config.stops[i], FALSE)
            IN [stop |-> [stops |-> IF IsSome(_nativeStop) THEN <<_nativeStop[1]>> ELSE <<>>]]]
    ELSE IF ConfigType(config) = "CameraStop"
    THEN LET _nativeStop == buildNativeStop(defaultStop, follow, config, FALSE)
         IN IF IsSome(_nativeStop) THEN <<[stop |-> _nativeStop[1]]>> ELSE <<>>
    ELSE <<>>

\* a CameraStop literal none of whose fields is set
BlankStop ==
    [type |-> Some("CameraStop"), centerCoordinate |-> None, bounds |-> None,
     heading |-> None, pitch |-> None, zoomLevel |-> None, padding |-> None,
     animationDuration |-> None, animationMode |-> None]

\* a bounds object with no padding props
BoundsOf(ne, sw) ==
    [ne |-> ne, sw |-> sw, paddingTop |-> None, paddingRight |-> None,
     paddingBottom |-> None, paddingLeft |-> None]

PaddingOf(t, r, b, l) ==
    [paddingTop |-> t, paddingRight |-> r, paddingBottom |-> b, paddingLeft |-> l]

fitBoundsPadding_sidesSwapped(paddingConfig) ==
    LET pc == IF paddingConfig.typeof = "undefined"
              THEN [typeof |-> "number", value |-> <<0>>]
              ELSE paddingConfig
        v == pc.value
    IN IF pc.typeof = "object"
       THEN IF Len(v) = 2
            THEN PaddingOf(Some(v[1]), Some(v[2]), Some(v[1]), Some(v[2]))
            ELSE IF Len(v) = 4
            THEN PaddingOf(Some(v[1]), Some(v[4]), Some(v[3]), Some(v[2]))
            ELSE PaddingOf(Some(0), Some(0), Some(0), Some(0))
       ELSE IF pc.typeof = "number"
       THEN PaddingOf(Some(v[1]), Some(v[1]), Some(v[1]), Some(v[1]))
       ELSE PaddingOf(Some(0), Some(0), Some(0), Some(0))

\* the padding object _fitBounds builds from paddingConfig (default 0)
fitBoundsPadding(paddingConfig) ==
    LET pc == IF paddingConfig.typeof = "undefined"
              THEN [typeof |-> "number", value |-> <<0>>]
              ELSE paddingConfig
        v == pc.value
    IN IF pc.typeof = "object"
       THEN IF Len(v) = 2
            THEN PaddingOf(Some(v[1]), Some(v[2]), Some(v[1]), Some(v[2]))
            ELSE IF Len(v) = 4
            THEN PaddingOf(Some(v[1]), Some(v[2]), Some(v[3]), Some(v[4]))
            ELSE PaddingOf(Some(0), Some(0), Some(0), Some(0))
       ELSE IF pc.typeof = "number"
       THEN PaddingOf(Some(v[1]), Some(v[1]), Some(v[1]), Some(v[1]))
       ELSE PaddingOf(Some(0), Some(0), Some(0), Some(0))

\* the config _fitBounds passes to setCamera
fitBoundsConfig(ne, sw, paddingConfig, animationDuration) ==
    [BlankStop EXCEPT
       !.bounds = Some(BoundsOf(Some(ne), Some(sw))),
       !.padding = Some(fitBoundsPadding(paddingConfig)),
       !.animationDuration = Coalesce(animationDuration, Some(0)),
       !.animationMode = Some("easeTo")]

flyToConfig_forcedFlight(centerCoordinate, animationDuration) ==
    [BlankStop EXCEPT
       !.centerCoordinate = Some(centerCoordinate),
       !.animationDuration = Coalesce(animationDuration, Some(2000)),
       !.animationMode = Some("flyTo")]

\* the config _flyTo passes to setCamera
flyToConfig(centerCoordinate, animationDuration) ==
    [BlankStop EXCEPT
       !.centerCoordinate = Some(centerCoordinate),
       !.animationDuration = Coalesce(animationDuration, Some(2000))]

\* the config _moveTo passes to setCamera
moveToConfig(centerCoordinate, animationDuration) ==
    [BlankStop EXCEPT
       !.centerCoordinate = Some(centerCoordinate),
       !.animationDuration = Coalesce(animationDuration, Some(0)),
       !.animationMode = Some("easeTo")]

\* the config _zoomTo passes to setCamera
zoomToConfig(zoomLevel, animationDuration) ==
    [BlankStop EXCEPT
       !.zoomLevel = Some(zoomLevel),
       !.animationDuration = Coalesce(animationDuration, Some(2000)),
       !.animationMode = Some("flyTo")]

----------------------------------------------------------------------------
(* Inputs *)

OptNum(vals) == {None} \cup {Some(v) : v \in vals}

ModeInputs ==
    {None} \cup {Some(m) : m \in {"flyTo", "easeTo", "linearTo", "moveTo", "none", "bogus"}}

BoundsInputs ==
    {None,
     Some(BoundsOf(Some(<<12, 34>>), Some(<<10, 20>>))),
     Some([BoundsOf(Some(<<12, 34>>), Some(<<10, 20>>))
             EXCEPT !.paddingTop = Some(3), !.paddingLeft = Some(4)]),
     Some([BoundsOf(Some(<<12, 34>>), None) EXCEPT !.paddingRight = Some(3)])}

PaddingInputs ==
    {None,
     Some(PaddingOf(Some(5), Some(8), Some(5), Some(8))),
     Some(PaddingOf(Some(5), None, None, None))}

\* the single stops a caller passes to setCamera: every combination of target and
\* padding, every combination of the numeric fields, and every animation mode
CameraStopInputs ==
    {[BlankStop EXCEPT !.centerCoordinate = c, !.bounds = b, !.padding = p] :
        c \in {None, Some(<<10, 20>>)}, b \in BoundsInputs, p \in PaddingInputs}
    \cup {[BlankStop EXCEPT !.heading = h, !.pitch = pi, !.zoomLevel = z,
                            !.animationDuration = d] :
            h \in OptNum({90}), pi \in OptNum({30}), z \in OptNum({14}), d \in OptNum({0})}
    \cup {[BlankStop EXCEPT !.animationMode = m] : m \in ModeInputs}

\* the stops of a stop list, and of a config without a type
ListStopInputs ==
    {[BlankStop EXCEPT !.type = None, !.zoomLevel = Some(14)],
     [BlankStop EXCEPT !.type = None, !.centerCoordinate = Some(<<10, 20>>),
                       !.padding = Some(PaddingOf(Some(5), None, None, None)),
                       !.bounds = Some([BoundsOf(Some(<<12, 34>>), Some(<<10, 20>>))
                                          EXCEPT !.paddingLeft = Some(4)]),
                       !.animationMode = Some("none")]}

SeqsUpTo(S, n) == UNION {[1..k -> S] : k \in 0..n}

CameraStopsInputs ==
    [type : {None, Some("CameraStops")}, stops : SeqsUpTo(ListStopInputs, MaxStops)]

ConfigInputs == CameraStopInputs \cup ListStopInputs \cup CameraStopsInputs

\* the arrays [p + 1, p + 2, ...] of every length up to MaxPadLen: no two elements equal
PaddingArrays == {[i \in 1..k |-> p + i] : k \in 0..MaxPadLen, p \in PadBases}

PaddingConfigInputs ==
    {[typeof |-> "undefined", value |-> <<>>]}
    \cup {[typeof |-> "number", value |-> <<n>>] : n \in {0, 5, 8}}
    \cup {[typeof |-> "object", value |-> v] : v \in PaddingArrays}

DurationInputs == OptNum({300})

DefaultSettingsInputs ==
    {None,
     Some([BlankStop EXCEPT !.type = None]),
     Some([type |-> None, centerCoordinate |-> Some(<<12, 34>>),
           bounds |-> Some([BoundsOf(Some(<<12, 34>>), Some(<<10, 20>>))
                              EXCEPT !.paddingTop = Some(3)]),
           heading |-> Some(45), pitch |-> Some(60), zoomLevel |-> Some(5),
           padding |-> Some(PaddingOf(Some(1), Some(2), Some(3), Some(4))),
           animationDuration |-> Some(500), animationMode |-> Some("linearTo")])}

FollowConfigInputs ==
    {[followUserMode |-> None, followZoomLevel |-> None, followPitch |-> None,
      followHeading |-> None],
     [followUserMode |-> Some("compass"), followZoomLevel |-> Some(16),
      followPitch |-> Some(30), followHeading |-> Some(90)]}

MaxBoundsInputs ==
    {None,
     Some([ne |-> Some(<<12, 34>>), sw |-> Some(<<10, 20>>)]),
     Some([ne |-> Some(<<12, 34>>), sw |-> None])}

StopPropsInputs ==
    {[BlankStop EXCEPT !.type = None],
     [BlankStop EXCEPT !.type = None, !.centerCoordinate = Some(<<10, 20>>),
                       !.zoomLevel = Some(14)]}

----------------------------------------------------------------------------
(* The state machine *)

NoPaddingConfig == [typeof |-> "undefined", value |-> <<>>]

\* an event with no arguments
Call(op) ==
    [op |-> op, config |-> None, ne |-> None, sw |-> None, paddingConfig |-> NoPaddingConfig,
     animationDuration |-> None, centerCoordinate |-> None, zoomLevel |-> None]

\* the component mounted with no props
Init ==
    /\ defaultSettings = None
    /\ followUserLocation = FALSE
    /\ followConfig = [followUserMode |-> None, followZoomLevel |-> None,
                       followPitch |-> None, followHeading |-> None]
    /\ maxBounds = None
    /\ stopProps = [BlankStop EXCEPT !.type = None]
    /\ nativeDefaultStop = NativeDefaultStopOf(None)
    /\ nativeStop = buildNativeStop(NativeDefaultStopOf(None), FALSE,
                                    [BlankStop EXCEPT !.type = None], FALSE)
    /\ nativeMaxBounds = NativeMaxBoundsOf(None)
    /\ dispatched = <<>>
    /\ lastCall = Call("props")

\* a render with a new defaultSettings prop: the nativeDefaultStop memo is recomputed,
\* and with it buildNativeStop and the nativeStop memo
SetDefaultSettings_stale(ds) ==
    /\ ds # defaultSettings
    /\ defaultSettings' = ds
    /\ nativeDefaultStop' = nativeDefaultStop
    /\ nativeStop' = buildNativeStop(nativeDefaultStop', followUserLocation, stopProps, FALSE)
    /\ lastCall' = Call("props")
    /\ UNCHANGED <<followUserLocation, followConfig, maxBounds, stopProps, nativeMaxBounds,
                   dispatched>>

SetDefaultSettings(ds) ==
    /\ ds # defaultSettings
    /\ defaultSettings' = ds
    /\ nativeDefaultStop' = NativeDefaultStopOf(ds)
    /\ nativeStop' = buildNativeStop(nativeDefaultStop', followUserLocation, stopProps, FALSE)
    /\ lastCall' = Call("props")
    /\ UNCHANGED <<followUserLocation, followConfig, maxBounds, stopProps, nativeMaxBounds,
                   dispatched>>

\* a render with a new followUserLocation prop: buildNativeStop and nativeStop are recomputed
SetFollowUserLocation(f) ==
    /\ f # followUserLocation
    /\ followUserLocation' = f
    /\ nativeStop' = buildNativeStop(nativeDefaultStop, f, stopProps, FALSE)
    /\ lastCall' = Call("props")
    /\ UNCHANGED <<defaultSettings, followConfig, maxBounds, stopProps, nativeDefaultStop,
                   nativeMaxBounds, dispatched>>

\* a render with new follow tuning props: no memo depends on them
SetFollowConfig(fc) ==
    /\ fc # followConfig
    /\ followConfig' = fc
    /\ lastCall' = Call("props")
    /\ UNCHANGED <<defaultSettings, followUserLocation, maxBounds, stopProps,
                   nativeDefaultStop, nativeStop, nativeMaxBounds, dispatched>>

\* a render with a new maxBounds prop: the nativeMaxBounds memo is recomputed
SetMaxBounds(mb) ==
    /\ mb # maxBounds
    /\ maxBounds' = mb
    /\ nativeMaxBounds' = NativeMaxBoundsOf(mb)
    /\ lastCall' = Call("props")
    /\ UNCHANGED <<defaultSettings, followUserLocation, followConfig, stopProps,
                   nativeDefaultStop, nativeStop, dispatched>>

\* a render with new stop props: the nativeStop memo is recomputed
SetStopProps(sp) ==
    /\ sp # stopProps
    /\ stopProps' = sp
    /\ nativeStop' = buildNativeStop(nativeDefaultStop, followUserLocation, sp, FALSE)
    /\ lastCall' = Call("props")
    /\ UNCHANGED <<defaultSettings, followUserLocation, followConfig, maxBounds,
                   nativeDefaultStop, nativeMaxBounds, dispatched>>

props == <<defaultSettings, followUserLocation, followConfig, maxBounds, stopProps,
           nativeDefaultStop, nativeStop, nativeMaxBounds>>

\* camera.setCamera(config)
SetCamera(config) ==
    /\ dispatched' = setCamera(nativeDefaultStop, followUserLocation, config)
    /\ lastCall' = [Call("setCamera") EXCEPT !.config = Some(config)]
    /\ UNCHANGED props

\* camera.fitBounds(ne, sw, paddingConfig, animationDuration)
FitBounds(ne, sw, paddingConfig, animationDuration) ==
    /\ dispatched' = setCamera(nativeDefaultStop, followUserLocation,
                               fitBoundsConfig(ne, sw, paddingConfig, animationDuration))
    /\ lastCall' = [Call("fitBounds") EXCEPT !.ne = Some(ne), !.sw = Some(sw),
                                             !.paddingConfig = paddingConfig,
                                             !.animationDuration = animationDuration]
    /\ UNCHANGED props

\* camera.flyTo(centerCoordinate, animationDuration)
FlyTo(centerCoordinate, animationDuration) ==
    /\ dispatched' = setCamera(nativeDefaultStop, followUserLocation,
                               flyToConfig(centerCoordinate, animationDuration))
    /\ lastCall' = [Call("flyTo") EXCEPT !.centerCoordinate = Some(centerCoordinate),
                                         !.animationDuration = animationDuration]
    /\ UNCHANGED props

\* camera.moveTo(centerCoordinate, animationDuration)
MoveTo(centerCoordinate, animationDuration) ==
    /\ dispatched' = setCamera(nativeDefaultStop, followUserLocation,
                               moveToConfig(centerCoordinate, animationDuration))
    /\ lastCall' = [Call("moveTo") EXCEPT !.centerCoordinate = Some(centerCoordinate),
                                          !.animationDuration = animationDuration]
    /\ UNCHANGED props

\* camera.zoomTo(zoomLevel, animationDuration)
ZoomTo(zoomLevel, animationDuration) ==
    /\ dispatched' = setCamera(nativeDefaultStop, followUserLocation,
                               zoomToConfig(zoomLevel, animationDuration))
    /\ lastCall' = [Call("zoomTo") EXCEPT !.zoomLevel = Some(zoomLevel),
                                          !.animationDuration = animationDuration]
    /\ UNCHANGED props

Next ==
    \/ \E ds \in DefaultSettingsInputs : SetDefaultSettings(ds)
    \/ \E f \in BOOLEAN : SetFollowUserLocation(f)
    \/ \E fc \in FollowConfigInputs : SetFollowConfig(fc)
    \/ \E mb \in MaxBoundsInputs : SetMaxBounds(mb)
    \/ \E sp \in StopPropsInputs : SetStopProps(sp)
    \/ \E config \in ConfigInputs : SetCamera(config)
    \/ \E ne \in {<<12, 34>>}, sw \in {<<10, 20>>}, pc \in PaddingConfigInputs,
          d \in DurationInputs : FitBounds(ne, sw, pc, d)
    \/ \E c \in Positions, d \in DurationInputs : FlyTo(c, d)
    \/ \E c \in Positions, d \in DurationInputs : MoveTo(c, d)
    \/ \E z \in {14, 16}, d \in DurationInputs : ZoomTo(z, d)

Spec == Init /\ [][Next]_vars

----------------------------------------------------------------------------
(* Properties *)

\* the latest event is the imperative call op
Called(op) == lastCall.op = op

\* the latest event is setCamera with a single stop
CalledSetCameraStop == Called("setCamera") /\ ~HasStops(lastCall.config[1])

\* the latest event is setCamera with a stop list
CalledSetCameraStops == Called("setCamera") /\ HasStops(lastCall.config[1])

\* the latest event is an operation that issues a single stop
CalledSingleStop ==
    \/ CalledSetCameraStop
    \/ lastCall.op \in {"fitBounds", "flyTo", "moveTo", "zoomTo"}

\* the stops a payload carries
StopsOf(payload) ==
    IF "stops" \in DOMAIN payload.stop THEN payload.stop.stops ELSE <<payload.stop>>

\* C1: while follow mode is active the resolution of the stop props is null and a
\* single-stop operation gives nothing to setNativeProps; while it is inactive
\* a single-stop operation gives exactly one payload.
C1_FollowSuppressesSingleStop ==
    /\ followUserLocation => nativeStop = None
    /\ CalledSingleStop =>
         IF followUserLocation THEN Len(dispatched) = 0 ELSE Len(dispatched) = 1

C1_Witness == followUserLocation /\ Called("zoomTo") /\ Len(dispatched) = 0

\* C2: while follow mode is active, setCamera with a stop list gives nothing at
\* all to setNativeProps.
C2_SuppressedListHandsNothing ==
    (CalledSetCameraStops /\ followUserLocation) => Len(dispatched) = 0

\* C3: while follow mode is inactive, setCamera with a list of n stops makes
\* exactly n setNativeProps calls, the i-th carrying the resolution of the i-th
\* stop alone.
C3_ListDispatchedInOrder ==
    (CalledSetCameraStops /\ ~followUserLocation) =>
        LET stops == lastCall.config[1].stops IN
        /\ Len(dispatched) = Len(stops)
        /\ \A i \in 1..Len(stops) :
             dispatched[i] = [stop |-> [stops |-> <<MergeStop(nativeDefaultStop, stops[i])>>]]

C3_Witness ==
    /\ CalledSetCameraStops /\ ~followUserLocation
    /\ ~IsSome(lastCall.config[1].type)
    /\ Len(lastCall.config[1].stops) = 2
    /\ lastCall.config[1].stops[1] # lastCall.config[1].stops[2]
    /\ Len(dispatched) = 2

\* an override that sets zoomLevel and nothing else
OnlyZoomLevel(stop) ==
    /\ IsSome(stop.zoomLevel)
    /\ \A f \in {"centerCoordinate", "bounds", "heading", "pitch", "padding",
                 "animationDuration", "animationMode"} : ~IsSome(stop[f])

\* C4: with a default configuration supplied, resolving an override that sets
\* only zoomLevel yields the default stop with its zoom replaced: every other
\* field, the four padding sides included, is the default stop's.
C4_ZoomOnlyKeepsDefaults ==
    (/\ CalledSetCameraStop /\ ~followUserLocation
     /\ OnlyZoomLevel(lastCall.config[1]) /\ IsSome(nativeDefaultStop)) =>
        dispatched = <<[stop |-> [nativeDefaultStop[1]
                                    EXCEPT !.zoom = lastCall.config[1].zoomLevel]]>>

NativeModeTokens == {"flight", "ease", "linear", "move"}

\* C5: every stop given to setNativeProps has a value for heading, pitch, zoom,
\* the four padding sides, duration and mode, the mode being a renderer token.
C5_DispatchedStopsConcrete ==
    \A i \in 1..Len(dispatched) :
      \A k \in 1..Len(StopsOf(dispatched[i])) :
        LET s == StopsOf(dispatched[i])[k] IN
        /\ \A f \in {"heading", "pitch", "zoom", "paddingTop", "paddingRight",
                     "paddingBottom", "paddingLeft", "duration", "mode"} : IsSome(s[f])
        /\ s.mode[1] \in NativeModeTokens

\* the padding the documentation of fitBounds gives for a paddingConfig
DocumentedPadding(pc) ==
    LET v == pc.value IN
    IF pc.typeof = "number" THEN [top |-> v[1], right |-> v[1], bottom |-> v[1], left |-> v[1]]
    ELSE IF pc.typeof = "object" /\ Len(v) = 2
    THEN [top |-> v[1], right |-> v[2], bottom |-> v[1], left |-> v[2]]
    ELSE IF pc.typeof = "object" /\ Len(v) = 4
    THEN [top |-> v[1], right |-> v[2], bottom |-> v[3], left |-> v[4]]
    ELSE [top |-> 0, right |-> 0, bottom |-> 0, left |-> 0]

\* C6: with follow mode inactive, fitBounds gives one stop with the bounds of
\* its two corners, mode ease, the duration given (0 when omitted) and the
\* padding its paddingConfig stands for (all zero for an absent config or an
\* array of a length other than 2 and 4).
C6_FitBounds ==
    (Called("fitBounds") /\ ~followUserLocation) =>
        /\ Len(dispatched) = 1
        /\ LET s == dispatched[1].stop
               p == DocumentedPadding(lastCall.paddingConfig)
           IN /\ s.bounds = Some(<<"LatLngBounds", lastCall.ne[1], lastCall.sw[1]>>)
              /\ s.mode = Some("ease")
              /\ s.duration = (IF IsSome(lastCall.animationDuration)
                               THEN lastCall.animationDuration ELSE Some(0))
              /\ s.paddingTop = Some(p.top)
              /\ s.paddingRight = Some(p.right)
              /\ s.paddingBottom = Some(p.bottom)
              /\ s.paddingLeft = Some(p.left)

C6_Witness ==
    /\ Called("fitBounds") /\ ~followUserLocation
    /\ lastCall.paddingConfig.typeof = "object"
    /\ Len(lastCall.paddingConfig.value) = 4
    /\ Len(dispatched) = 1
    /\ dispatched[1].stop.paddingRight # dispatched[1].stop.paddingLeft

\* the duration of a call: the one given, or the default of the operation
DurationOr(default) ==
    IF IsSome(lastCall.animationDuration) THEN lastCall.animationDuration ELSE Some(default)

DefaultZoomOf(ds) ==
    IF ~IsSome(ds) THEN None
    ELSE IF IsSome(ds[1].zoomLevel) THEN ds[1].zoomLevel ELSE Some(11)

\* C8: a change of defaultSettings leaves the follow props and the resolved
\* max-bounds as they were and recomputes the default stop; the default stop
\* changes in no other step; and a resolution uses the default stop of the
\* current defaultSettings.
C8_DefaultStopLifecycle ==
    /\ [](nativeDefaultStop = NativeDefaultStopOf(defaultSettings))
    /\ []((Called("flyTo") /\ ~followUserLocation) =>
            /\ Len(dispatched) = 1
            /\ dispatched[1].stop.zoom = DefaultZoomOf(defaultSettings))
    /\ [][/\ defaultSettings' # defaultSettings =>
               /\ followUserLocation' = followUserLocation
               /\ followConfig' = followConfig
               /\ nativeMaxBounds' = nativeMaxBounds
               /\ nativeDefaultStop' = NativeDefaultStopOf(defaultSettings')
          /\ nativeDefaultStop' # nativeDefaultStop => defaultSettings' # defaultSettings
          /\ defaultSettings' = defaultSettings => nativeDefaultStop' = nativeDefaultStop]_vars

C8_Witness ==
    /\ Called("props")
    /\ IsSome(defaultSettings) /\ IsSome(nativeDefaultStop)
    /\ nativeDefaultStop[1].zoom = Some(5)
    /\ followUserLocation /\ IsSome(followConfig.followUserMode)
    /\ IsSome(nativeMaxBounds)

\* the side of a padding object, 0 when it is not set
SideOrZero(padding, side) ==
    IF IsSome(padding[side]) THEN padding[side] ELSE Some(0)

\* C9 as stated: when the override carries a padding object, no resolved side
\* comes from the padding attached to the bounds: each side is the padding
\* object's, or 0.
C9_PaddingAllOrNothing ==
    (CalledSetCameraStop /\ ~followUserLocation /\ IsSome(lastCall.config[1].padding)) =>
        LET s == dispatched[1].stop
            p == lastCall.config[1].padding[1]
        IN /\ s.paddingTop = SideOrZero(p, "paddingTop")
           /\ s.paddingRight = SideOrZero(p, "paddingRight")
           /\ s.paddingBottom = SideOrZero(p, "paddingBottom")
           /\ s.paddingLeft = SideOrZero(p, "paddingLeft")

\* the side the per-side rule gives: the padding object's, else the bounds', else 0
PerSide(stop, side) ==
    IF IsSome(stop.padding) /\ IsSome(stop.padding[1][side]) THEN stop.padding[1][side]
    ELSE IF IsSome(stop.bounds) /\ IsSome(stop.bounds[1][side]) THEN stop.bounds[1][side]
    ELSE Some(0)

\* C9 as amended: each side is resolved on its own: the padding object's value
\* when it sets that side, else the value attached to the bounds, else 0; so a
\* padding object that sets all four sides leaves nothing to the bounds.
C9_PaddingPerSide ==
    (CalledSetCameraStop /\ ~followUserLocation) =>
        /\ Len(dispatched) = 1
        /\ LET s == dispatched[1].stop
               c == lastCall.config[1]
           IN /\ s.paddingTop = PerSide(c, "paddingTop")
              /\ s.paddingRight = PerSide(c, "paddingRight")
              /\ s.paddingBottom = PerSide(c, "paddingBottom")
              /\ s.paddingLeft = PerSide(c, "paddingLeft")
              /\ (IsSome(c.padding) /\ \A f \in DOMAIN c.padding[1] : IsSome(c.padding[1][f]))
                   => /\ s.paddingTop = c.padding[1].paddingTop
                      /\ s.paddingRight = c.padding[1].paddingRight
                      /\ s.paddingBottom = c.padding[1].paddingBottom
                      /\ s.paddingLeft = c.padding[1].paddingLeft

C9_Witness ==
    /\ CalledSetCameraStop /\ ~followUserLocation
    /\ IsSome(lastCall.config[1].padding)
    /\ ~IsSome(lastCall.config[1].padding[1].paddingLeft)
    /\ IsSome(lastCall.config[1].bounds)
    /\ lastCall.config[1].bounds[1].paddingLeft = Some(4)
    /\ Len(dispatched) = 1
    /\ dispatched[1].stop.paddingLeft = Some(4)

\* the override of the latest setCamera sets a center and bounds with both corners
CenterAndBounds ==
    /\ CalledSetCameraStop /\ ~followUserLocation
    /\ IsSome(lastCall.config[1].centerCoordinate)
    /\ IsSome(lastCall.config[1].bounds)
    /\ IsSome(lastCall.config[1].bounds[1].ne)
    /\ IsSome(lastCall.config[1].bounds[1].sw)

\* the bounds of the override of the latest setCamera, serialised
OverrideBounds ==
    Some(<<"LatLngBounds", lastCall.config[1].bounds[1].ne[1],
           lastCall.config[1].bounds[1].sw[1]>>)

\* C10 as stated: an override with a center and both corners resolves to a
\* stop that carries the serialised center and not the bounds of the override.
C10_CenterWinsOverBounds ==
    CenterAndBounds =>
        /\ dispatched[1].stop.centerCoordinate
             = Some(<<"Point", lastCall.config[1].centerCoordinate[1]>>)
        /\ dispatched[1].stop.bounds # OverrideBounds

\* C10 as amended: an override with a center and both corners resolves to a
\* stop that carries both the serialised center and the serialised bounds of
\* the override.
C10_CenterAndBoundsBothCarried ==
    CenterAndBounds =>
        /\ Len(dispatched) = 1
        /\ dispatched[1].stop.centerCoordinate
             = Some(<<"Point", lastCall.config[1].centerCoordinate[1]>>)
        /\ dispatched[1].stop.bounds = OverrideBounds

C10_Witness ==
    /\ CenterAndBounds
    /\ IsSome(nativeDefaultStop) /\ IsSome(nativeDefaultStop[1].bounds)
    /\ Len(dispatched) = 1
    /\ dispatched[1].stop.bounds = OverrideBounds

====
